---- MODULE Spec2Model ----
(***************************************************************************)
(* A model of the PSIF exposure pipeline (psif_lib and scripts).           *)
(*                                                                         *)
(* Angles are integers in tenths of a degree (22.5 degrees = 225).         *)
(* Dwell durations are integers in 24ths of a day (hours_in_sector; the    *)
(* code stores hours_in_sector / 24).                                      *)
(***************************************************************************)
EXTENDS Integers, Sequences, FiniteSets, TLC

VARIABLES
    \* --- sector classifier / wind profile (wind_utils.py, processing.py:7-11)
    wind_e, wind_n,          \* ds[ugrd_var], ds[vgrd_var] of one grid sample
    wind_direction,          \* ds["wind_direction"], tenths of a degree
    wind_sector,             \* ds["wind_sector"]; 0 = not yet assigned
    \* --- bearing of one fire->receptor pair (geo_helpers.py:20-27)
    d_lat, d_lon,            \* sign of receptor - fire in latitude, longitude
    bearing_sector,          \* pairs["bearing_sector"]; 0 = not yet assigned
    bearing_sector_opposite, \* pairs["bearing_sector_opposite"]; 0 = not yet
    \* --- candidate pairing (processing.py:80-113)
    fires_d,                 \* the fire table: a sequence of fire rows
    bgs_d,                   \* the receptor table: a sequence of receptor rows
    max_km,                  \* the distance threshold, in metres
    cart,                    \* the table fire_bg_pairs returns
    \* --- exposure model (processing.py:116-163)
    pairs,                   \* the pair table passed in: a sequence of rows
    wind_fire,               \* duration_sector_1..8 of the rows (fire side)
    wind_bg,                 \* duration_sector_1..8_bg of the rows
    bg_cols,                 \* the sectors k whose column duration_sector_k_bg exists
    derived,                 \* the columns psif_from_pairs adds to pairs
    printed,                 \* the diagnostics printed
    raised,                  \* the exception that ended the call, "" if none
    psif_out,                \* the table psif_from_pairs returns
    \* --- temporal smoother (processing.py:166-264)
    ma_df,                   \* df: the (date, receptor) table passed in
    start_md, end_md,        \* start_date_str, end_date_str as days of the year
    ma_out,                  \* the table calculate_moving_average returns
    \* --- reaggregation (calculate_PSIF.py:61-64 and 99-113)
    PSIF_with_moving,        \* the smoothed table: a set of rows
    BG_to_ZCTA_map,          \* the crosswalk: a set of rows GEOID, zcta, afact
    merged,                  \* the left merge, with weighted_psif
    zcta_psif,               \* the reaggregated table: a set of rows
    \* --- fire preparation (processing.py:65-71)
    fires_df,                \* the caller's fire table: a sequence of rows
    prepped,                 \* the table prep_fires returns
    \* --- daily wind profile (processing.py:13-30), one grid cell
    ds,                      \* the hourly samples: a sequence of samples
    daily_ds,                \* per day, hours_in_sector of the sectors 1..8
    \* --- a second call of psif_from_pairs, next to the first
    alt_value,               \* the value its opposite-sector cells hold
    raised_alt,              \* the exception that ended it, "" if none
    psif_out_alt,            \* the table it returns
    pc                       \* position of the run

vars == <<wind_e, wind_n, wind_direction, wind_sector, d_lat, d_lon,
          bearing_sector, bearing_sector_opposite,
          fires_d, bgs_d, max_km, cart,
          pairs, wind_fire, wind_bg, bg_cols, derived, printed, raised,
          psif_out, ma_df, start_md, end_md, ma_out,
          PSIF_with_moving, BG_to_ZCTA_map, merged, zcta_psif,
          fires_df, prepped, ds, daily_ds,
          alt_value, raised_alt, psif_out_alt, pc>>

windVars == <<wind_e, wind_n, wind_direction, wind_sector>>
bearingVars == <<d_lat, d_lon, bearing_sector, bearing_sector_opposite>>
pairingVars == <<fires_d, bgs_d, max_km, cart>>
psifVars == <<pairs, wind_fire, wind_bg, bg_cols, derived, printed, raised,
              psif_out>>

\* The parts of the state a specification does not use stay at these values.
WindIdle ==
    wind_e = 0 /\ wind_n = 0 /\ wind_direction = 0 /\ wind_sector = 0
BearingIdle ==
    d_lat = 0 /\ d_lon = 0 /\ bearing_sector = 0 /\ bearing_sector_opposite = 0
PairingIdle ==
    fires_d = <<>> /\ bgs_d = <<>> /\ max_km = 0 /\ cart = <<>>
maVars == <<ma_df, start_md, end_md, ma_out>>
PsifIdle ==
    /\ pairs = <<>> /\ wind_fire = <<>> /\ wind_bg = <<>> /\ bg_cols = {}
    /\ derived = <<>> /\ printed = <<>> /\ raised = "" /\ psif_out = <<>>
MAIdle ==
    ma_df = {} /\ start_md = 0 /\ end_md = 0 /\ ma_out = <<>>

reaggVars == <<PSIF_with_moving, BG_to_ZCTA_map, merged, zcta_psif>>
prepVars == <<fires_df, prepped>>
dailyVars == <<ds, daily_ds>>
twinVars == <<alt_value, raised_alt, psif_out_alt>>
restVars == <<reaggVars, prepVars, dailyVars, twinVars>>

ReaggIdle ==
    /\ PSIF_with_moving = {} /\ BG_to_ZCTA_map = {}
    /\ merged = {} /\ zcta_psif = {}
PrepIdle ==
    fires_df = <<>> /\ prepped = <<>>
DailyIdle ==
    ds = <<>> /\ daily_ds = <<>>
TwinIdle ==
    alt_value = 0 /\ raised_alt = "" /\ psif_out_alt = <<>>
RestIdle ==
    ReaggIdle /\ PrepIdle /\ DailyIdle /\ TwinIdle

----------------------------------------------------------------------------
(* Helpers *)

Abs(x) == IF x < 0 THEN -x ELSE x

\* Python's float % for a positive modulus: the result has the sign of m.
PyMod(x, m) == x % m

\* One full turn, in tenths of a degree.
FullTurn == 360 * 10

----------------------------------------------------------------------------
(* Sector classifier: wind_utils.py:4-13 (same body as getWinds.py:60-64) *)

\* sector_bins, in tenths of a degree.
sector_bins == <<225, 675, 1125, 1575, 2025, 2475, 2925, 3375>>

\* np.digitize(x, bins, right=True) for increasing bins: the index i with
\* bins[i-1] < x <= bins[i], i.e. the number of bins strictly below x.
digitize_right(x, bins) ==
    Cardinality({i \in 1..Len(bins) : bins[i] < x})

\* The classifier without its wrap-around correction (line 12 dropped).
assign_wind_to_sectors_nowrap(wind_dir) ==
    digitize_right(wind_dir, sector_bins) + 1

assign_wind_to_sectors(wind_dir) ==
    LET sectors == digitize_right(wind_dir, sector_bins) + 1
    IN  IF wind_dir >= 3375 \/ wind_dir < 225 THEN 1 ELSE sectors

\* The partition listed in the docstring of getWinds.py:40-48.
DocSector(d) ==
    IF d >= 3375 \/ d < 225 THEN 1
    ELSE CHOOSE k \in 2..8 : 225 + 450 * (k - 2) <= d /\ d < 225 + 450 * (k - 1)

----------------------------------------------------------------------------
(* arctan2 in degrees on the nine sign vectors.                            *)
(* np.arctan2(y, x) is the angle of the point (x, y) measured              *)
(* counter-clockwise from the positive x axis, in (-180, 180];             *)
(* np.arctan2(0, 0) is 0.  Result in tenths of a degree.                   *)

Signs == {-1, 0, 1}

arctan2_deg(y, x) ==
    CASE y = 0  /\ x = 1  -> 0
      [] y = 1  /\ x = 1  -> 450
      [] y = 1  /\ x = 0  -> 900
      [] y = 1  /\ x = -1 -> 1350
      [] y = 0  /\ x = -1 -> 1800
      [] y = -1 /\ x = -1 -> -1350
      [] y = -1 /\ x = 0  -> -900
      [] y = -1 /\ x = 1  -> -450
      [] OTHER            -> 0

\* processing.py:9  (np.arctan2(ds[vgrd_var], ds[ugrd_var]) * 180/pi) % 360
wind_direction_of(east, north) == PyMod(arctan2_deg(north, east), FullTurn)

\* geo_helpers.py:20-27 with the fire on the equator (phi1 = 0), so that
\* y = sin(dl) cos(phi2) and x = sin(phi2): y has the sign of the longitude
\* difference and x the sign of the latitude difference.  For the diagonal
\* displacements of a small step the angle is within 0.01 degree of the
\* multiple of 45 used here, far from the sector boundaries.
bearing_deg(dlat, dlon) ==
    LET y == dlon
        x == dlat
    IN  PyMod(arctan2_deg(y, x) + FullTurn, FullTurn)

----------------------------------------------------------------------------
(* Opposite sector: processing.py:145 *)

\* The formula with the offset a half turn would suggest (4 instead of 3).
opposite_sector_offset4(s) == ((s + 4) % 8) + 1

\* ((pairs["bearing_sector"] + 3) % 8) + 1
opposite_sector(s) == ((s + 3) % 8) + 1

----------------------------------------------------------------------------
(* Specification SpecSector: the classifier on every direction in [0,360) *)

Directions == 0..(FullTurn - 1)

InitSector ==
    /\ wind_direction \in Directions
    /\ wind_sector = 0
    /\ wind_e = 0 /\ wind_n = 0
    /\ BearingIdle
    /\ PairingIdle
    /\ PsifIdle
    /\ MAIdle
    /\ RestIdle
    /\ pc = "classify"

\* ds["wind_sector"] = assign_wind_to_sectors(ds["wind_direction"])
AssignSector ==
    /\ pc = "classify"
    /\ wind_sector' = assign_wind_to_sectors(wind_direction)
    /\ pc' = "done"
    /\ UNCHANGED <<wind_e, wind_n, wind_direction, bearingVars, pairingVars, psifVars, maVars,
                   restVars>>

NextSector == AssignSector

SpecSector == InitSector /\ [][NextSector]_vars

----------------------------------------------------------------------------
(* Specification SpecBearing: one wind sample at the fire and one pair     *)

InitBearing ==
    /\ wind_e \in Signs /\ wind_n \in Signs
    /\ wind_direction = 0 /\ wind_sector = 0
    /\ d_lat \in Signs /\ d_lon \in Signs
    /\ bearing_sector = 0 /\ bearing_sector_opposite = 0
    /\ PairingIdle
    /\ PsifIdle
    /\ MAIdle
    /\ RestIdle
    /\ pc = "wind"

\* processing.py:7-11 (wind_speed is not read by any later step modelled here)
calculate_wind_speed_direction ==
    /\ pc = "wind"
    /\ wind_direction' = wind_direction_of(wind_e, wind_n)
    /\ wind_sector' = assign_wind_to_sectors(wind_direction_of(wind_e, wind_n))
    /\ pc' = "bearing"
    /\ UNCHANGED <<wind_e, wind_n, bearingVars, pairingVars, psifVars, maVars,
                   restVars>>

\* processing.py:119-122
AssignBearingSector ==
    /\ pc = "bearing"
    /\ bearing_sector' = assign_wind_to_sectors(bearing_deg(d_lat, d_lon))
    /\ pc' = "opposite"
    /\ UNCHANGED <<windVars, d_lat, d_lon, bearing_sector_opposite, pairingVars,
                   psifVars, maVars,
                   restVars>>

\* processing.py:145
AssignOppositeSector ==
    /\ pc = "opposite"
    /\ bearing_sector_opposite' = opposite_sector(bearing_sector)
    /\ pc' = "done"
    /\ UNCHANGED <<windVars, d_lat, d_lon, bearing_sector, pairingVars, psifVars, maVars,
                   restVars>>

NextBearing ==
    \/ calculate_wind_speed_direction
    \/ AssignBearingSector
    \/ AssignOppositeSector

SpecBearing == InitBearing /\ [][NextBearing]_vars

----------------------------------------------------------------------------
(* Candidate pairing: processing.py:80-113, geo_helpers.py:12-17           *)
(*                                                                         *)
(* The fires and receptors lie on one meridian, at latitudes that are      *)
(* multiples of half a degree.  There dl = 0, so a = sin(dphi/2)^2 and     *)
(* haversine_km = 2 R arcsin(|sin(dphi/2)|) = R |dphi|.  Distances and     *)
(* max_km are integers in metres.                                          *)

MaxFires == 2
MaxBgs == 2
MaxLat == 2

\* R_EARTH_KM * pi / 180 / 2, in metres: the arc of half a degree.
MetresPerHalfDegree == 55597

\* geo_helpers.py:12-17 on one meridian
haversine_km(lat1, lat2) == Abs(lat2 - lat1) * MetresPerHalfDegree

\* The thresholds tried: 0 and the default of 100 km.
MaxKmChoices == {0, 100 * 1000}

Lats == 0..MaxLat

SeqsUpTo(S, n) == UNION {[1..k -> S] : k \in 0..n}

\* processing.py:106-107: the merge on the constant key, fire-major
CrossProduct(fires, bgs) ==
    [k \in 1..(Len(fires) * Len(bgs)) |->
        [fire |-> ((k - 1) \div Len(bgs)) + 1,
         bg   |-> ((k - 1) % Len(bgs)) + 1]]

\* processing.py:109-110
DistOf(fires, bgs, row) == haversine_km(fires[row.fire], bgs[row.bg])

\* The filter with a strict comparison.
Within_strict(dist, limit) == dist < limit

\* processing.py:111-112: dist <= max_km
Within(dist, limit) == dist <= limit

\* processing.py:106-113
fire_bg_pairs(fires, bgs, limit) ==
    LET full == CrossProduct(fires, bgs)
        dist == [k \in 1..Len(full) |-> DistOf(fires, bgs, full[k])]
        kept == SelectSeq(full, LAMBDA r : Within(DistOf(fires, bgs, r), limit))
        keptDist == SelectSeq(dist, LAMBDA d : Within(d, limit))
    IN  [k \in 1..Len(kept) |->
            [fire |-> kept[k].fire, bg |-> kept[k].bg,
             distance_km |-> keptDist[k]]]

InitPairing ==
    /\ WindIdle
    /\ BearingIdle
    /\ fires_d \in SeqsUpTo(Lats, MaxFires)
    /\ bgs_d \in SeqsUpTo(Lats, MaxBgs)
    /\ max_km \in MaxKmChoices
    /\ cart = <<>>
    /\ PsifIdle
    /\ MAIdle
    /\ RestIdle
    /\ pc = "pair"

FireBgPairs ==
    /\ pc = "pair"
    /\ cart' = fire_bg_pairs(fires_d, bgs_d, max_km)
    /\ pc' = "done"
    /\ UNCHANGED <<windVars, bearingVars, fires_d, bgs_d, max_km, psifVars,
                   maVars,
                   restVars>>

NextPairing == FireBgPairs

SpecPairing == InitPairing /\ [][NextPairing]_vars

----------------------------------------------------------------------------
(* Floating-point values that the exposure formula can produce: an exact   *)
(* fraction n/d (d > 0), +inf, -inf or NaN.                                *)

Num(n, d) == [kind |-> "num", n |-> n, d |-> d]
PInf == [kind |-> "inf", n |-> 1, d |-> 0]
NInf == [kind |-> "-inf", n |-> -1, d |-> 0]
NaN == [kind |-> "nan", n |-> 0, d |-> 0]
\* A column that was never written.
Absent == [kind |-> "absent", n |-> 0, d |-> 0]

\* IEEE division of the number n by the number d >= 0 (numpy: no exception).
FDiv(n, d) ==
    IF d # 0 THEN Num(n, d)
    ELSE IF n > 0 THEN PInf
    ELSE IF n < 0 THEN NInf
    ELSE NaN

\* IEEE addition.
FAdd(a, b) ==
    CASE a.kind = "nan" \/ b.kind = "nan" -> NaN
      [] a.kind = "num" /\ b.kind = "num" -> Num(a.n * b.d + b.n * a.d, a.d * b.d)
      [] a.kind = "num" -> b
      [] b.kind = "num" -> a
      [] a.kind = b.kind -> a
      [] OTHER -> NaN

FEq(a, b) ==
    IF a.kind = "num" /\ b.kind = "num" THEN a.n * b.d = b.n * a.d
    ELSE a.kind = b.kind /\ a.kind # "nan"

RECURSIVE FSum(_)
FSum(vals) ==
    IF vals = <<>> THEN Num(0, 1) ELSE FAdd(FSum(Tail(vals)), Head(vals))

\* The sum that keeps every part, NaN included.
group_sum_keepna(vals) == FSum(vals)

\* processing.py:162: GroupBy.sum() skips the NaN parts of a group.
group_sum(vals) == FSum(SelectSeq(vals, LAMBDA v : v.kind # "nan"))

----------------------------------------------------------------------------
(* Exposure model: processing.py:116-163                                   *)
(*                                                                         *)
(* A row of pairs holds acq_date, GEOID, frp, distance_km and the position *)
(* of the receptor relative to the fire (dlat, dlon: the signs of the      *)
(* differences latitude - latitude_fire, longitude - longitude_fire).      *)
(* The rows share the wind profile of one fire-side grid cell (wind_fire)  *)
(* and of one receptor-side grid cell (wind_bg), in 24ths of a day.        *)

MaxPairs == 2

Sectors == 1..8
Dates == {1, 2}
\* GEOIDs, by numeric value (zero-padded digit strings of one length).
Geoids == {1, 2}
Frps == {0, 3}

\* Receptor at the fire (distance 0), due north, due east, south-west, due
\* south.
Geometries ==
    { [dlat |-> 0,  dlon |-> 0,  distance_km |-> 0],
      [dlat |-> 1,  dlon |-> 0,  distance_km |-> 1],
      [dlat |-> 0,  dlon |-> 1,  distance_km |-> 2],
      [dlat |-> -1, dlon |-> -1, distance_km |-> 2],
      [dlat |-> -1, dlon |-> 0,  distance_km |-> 1] }

PairRows ==
    { [acq_date |-> t, GEOID |-> g, frp |-> f, dlat |-> geo.dlat,
       dlon |-> geo.dlon, distance_km |-> geo.distance_km] :
        t \in Dates, g \in Geoids, f \in Frps, geo \in Geometries }

\* Wind profiles, hours in sector 1..8, as <<fire side, receptor side>>:
\* two ordinary days, a calm day with no sample in any sector, and profiles
\* with negative entries (which no count produces) on either side.
WindCases ==
    { << <<6, 3, 0, 2, 4, 1, 5, 3>>, <<2, 5, 1, 0, 3, 6, 4, 3>> >>,
      << <<0, 0, 0, 0, 0, 0, 0, 0>>, <<0, 0, 0, 0, 0, 0, 0, 0>> >>,
      << <<-8, 2, -1, 0, 3, -2, 1, 0>>, <<6, 3, 2, 2, 4, 1, 5, 1>> >>,
      << <<6, 3, 0, 2, 4, 1, 5, 3>>, <<-8, 2, 1, 0, 3, -2, 1, 0>> >> }

\* The receptor-side columns present: all eight, none, only sector 1.
BgColChoices == {Sectors, {}, {1}}

\* processing.py:119-122
BearingSectorOf(row) == assign_wind_to_sectors(bearing_deg(row.dlat, row.dlon))

\* processing.py:158: .clip(lower=0)
clip_lower0(x) == IF x < 0 THEN 0 ELSE x

\* The rows' column names that exist (processing.py:135 and 148), as sectors.
ExistingColumns(secs, cols) == SelectSeq(secs, LAMBDA k : k \in cols)

RECURSIVE GroupKeys(_, _)
\* The (acq_date, GEOID) keys in order of first appearance (sort=False).
GroupKeys(rows, seen) ==
    IF rows = <<>> THEN <<>>
    ELSE LET key == <<Head(rows).acq_date, Head(rows).GEOID>>
         IN  IF key \in seen THEN GroupKeys(Tail(rows), seen)
             ELSE <<key>> \o GroupKeys(Tail(rows), seen \cup {key})

\* The psif_part values of the rows of one group, in row order.
PartsOf(rows, parts, key) ==
    LET idx == SelectSeq([i \in 1..Len(rows) |-> i],
                   LAMBDA i : <<rows[i].acq_date, rows[i].GEOID>> = key)
    IN  [j \in 1..Len(idx) |-> parts[idx[j]]]

\* processing.py:116-163.  Returns the exception raised ("" if none), the
\* lines printed, the columns added to pairs and the table returned.
\* bgs[i] holds duration_sector_1..8_bg of row i.
psif_from_pairs_rows(rows, fire, bgs, cols) ==
    LET n == Len(rows)
        \* lines 119-122
        sector == [i \in 1..n |-> BearingSectorOf(rows[i])]
        \* lines 124-129
        sector_prob == [i \in 1..n |-> fire[sector[i]]]
        \* lines 132-142
        existing == ExistingColumns(sector, cols)
        k == Len(existing)
        sameOk == k = n \/ k = 1
        same == [i \in 1..n |-> IF k = n THEN bgs[i][existing[i]] ELSE bgs[i][existing[1]]]
        \* lines 145-154
        opp == [i \in 1..n |-> opposite_sector(sector[i])]
        existing2 == ExistingColumns(opp, cols)
        \* get_indexer gives -1 for a missing name: the last column, which
        \* is bearing_sector_opposite itself (a number, so 24 * it in 24ths)
        opposite == [i \in 1..n |->
                        IF opp[i] \in cols THEN bgs[i][opp[i]] ELSE 24 * opp[i]]
        \* lines 157-159
        total == [i \in 1..n |-> clip_lower0(sector_prob[i] + same[i])]
        part == [i \in 1..n |->
                    FDiv(rows[i].frp * total[i],
                         24 * rows[i].distance_km * rows[i].distance_km)]
        keys == GroupKeys(rows, {})
        err == IF k = 0 THEN "KeyError"
               ELSE IF ~sameOk THEN "IndexError"
               ELSE ""
        hasOpp == err # "IndexError" /\ existing2 # <<>>
    IN  [ raised  |-> err,
          printed |-> (IF k = 0 THEN <<"No matching columns found">> ELSE <<>>)
                      \o (IF err # "IndexError" /\ existing2 = <<>>
                          THEN <<"No Matching Column">> ELSE <<>>),
          derived |-> [i \in 1..n |->
              [ bearing_sector |-> sector[i],
                sector_prob |-> sector_prob[i],
                has_same |-> k # 0 /\ sameOk,
                sector_prob_BGWind_SameDirection |->
                    IF k # 0 /\ sameOk THEN same[i] ELSE 0,
                bearing_sector_opposite |->
                    IF err # "IndexError" THEN opp[i] ELSE 0,
                has_opposite |-> hasOpp,
                sector_prob_BGWind_OppositeDirection |->
                    IF hasOpp THEN opposite[i] ELSE 0,
                has_total |-> err = "",
                sector_prob_total |-> IF err = "" THEN total[i] ELSE 0,
                psif_part |-> IF err = "" THEN part[i] ELSE Absent ]],
          out |-> IF err # "" THEN <<>>
                  ELSE [j \in 1..Len(keys) |->
                          [ acq_date |-> keys[j][1], GEOID |-> keys[j][2],
                            PSIF |-> group_sum(PartsOf(rows, part, keys[j])) ]] ]

\* processing.py:116-163 on rows that share one receptor-side profile bg.
psif_from_pairs(rows, fire, bg, cols) ==
    psif_from_pairs_rows(rows, fire, [i \in 1..Len(rows) |-> bg], cols)

InitPsif ==
    /\ WindIdle
    /\ BearingIdle
    /\ PairingIdle
    /\ pairs \in SeqsUpTo(PairRows, MaxPairs)
    /\ \E w \in WindCases : wind_fire = w[1] /\ wind_bg = w[2]
    /\ bg_cols \in BgColChoices
    /\ derived = <<>> /\ printed = <<>> /\ raised = "" /\ psif_out = <<>>
    /\ MAIdle
    /\ RestIdle
    /\ pc = "psif"

PsifFromPairs ==
    /\ pc = "psif"
    /\ LET r == psif_from_pairs(pairs, wind_fire, wind_bg, bg_cols)
       IN  /\ derived' = r.derived
           /\ printed' = r.printed
           /\ raised' = r.raised
           /\ psif_out' = r.out
    /\ pc' = "done"
    /\ UNCHANGED <<windVars, bearingVars, pairingVars, pairs, wind_fire,
                   wind_bg, bg_cols, maVars,
                   restVars>>

NextPsif == PsifFromPairs

SpecPsif == InitPsif /\ [][NextPsif]_vars

----------------------------------------------------------------------------
(* Two calls of psif_from_pairs side by side: processing.py:116-163        *)
(*                                                                         *)
(* The first call is the one of SpecPsif.  The second call gets the same   *)
(* rows, fire-side profile and receptor-side columns; its table differs    *)
(* from the first in one cell of every row, the receptor-side column that  *)
(* the row's bearing_sector_opposite selects, which holds alt_value.       *)

AltValues == {0, 7}

\* The receptor-side profile of row i in the second call.
AltBgOf(row, bg, value) ==
    [bg EXCEPT ![opposite_sector(BearingSectorOf(row))] = value]

InitTwin ==
    /\ WindIdle
    /\ BearingIdle
    /\ PairingIdle
    /\ pairs \in SeqsUpTo(PairRows, MaxPairs)
    /\ \E w \in WindCases : wind_fire = w[1] /\ wind_bg = w[2]
    /\ bg_cols \in BgColChoices
    /\ derived = <<>> /\ printed = <<>> /\ raised = "" /\ psif_out = <<>>
    /\ MAIdle
    /\ ReaggIdle /\ PrepIdle /\ DailyIdle
    /\ alt_value \in AltValues
    /\ raised_alt = "" /\ psif_out_alt = <<>>
    /\ pc = "twin"

PsifFromPairsTwice ==
    /\ pc = "twin"
    /\ LET r == psif_from_pairs(pairs, wind_fire, wind_bg, bg_cols)
           a == psif_from_pairs_rows(pairs, wind_fire,
                    [i \in 1..Len(pairs) |-> AltBgOf(pairs[i], wind_bg, alt_value)],
                    bg_cols)
       IN  /\ derived' = r.derived
           /\ printed' = r.printed
           /\ raised' = r.raised
           /\ psif_out' = r.out
           /\ raised_alt' = a.raised
           /\ psif_out_alt' = a.out
    /\ pc' = "done"
    /\ UNCHANGED <<windVars, bearingVars, pairingVars, pairs, wind_fire,
                   wind_bg, bg_cols, maVars, reaggVars, prepVars, dailyVars,
                   alt_value>>

NextTwin == PsifFromPairsTwice

SpecTwin == InitTwin /\ [][NextTwin]_vars

----------------------------------------------------------------------------
(* Temporal smoother: processing.py:166-264                                *)
(*                                                                         *)
(* A date is the integer year * YearLen + day, day in 1..YearLen, so that  *)
(* date + 1 is the next calendar day.  The model's year has YearLen days.  *)
(* A GEOID is modelled by its numeric value (the GEOID strings are         *)
(* zero-padded digit strings of one length, ordered as their values).      *)
(* df is a set of rows with one row at most per (GEOID, acq_date), as      *)
(* psif_from_pairs returns it.                                             *)

YearLen == 7
MaxRecs == 2

Years == {1, 2}
Values == {0, 3}

Day(year, day) == year * YearLen + day
YearOf(date) == (date - 1) \div YearLen

AllDates == {Day(y, d) : y \in Years, d \in 1..YearLen}

\* The (acq_date, GEOID) keys, numbered 1..NKeys.
NKeys == Cardinality(AllDates) * Cardinality(Geoids)
KeyOf(k) ==
    LET perYear == YearLen * Cardinality(Geoids)
        year == ((k - 1) \div perYear) + 1
        rest == (k - 1) % perYear
    IN  [acq_date |-> Day(year, (rest \div Cardinality(Geoids)) + 1),
         GEOID |-> (rest % Cardinality(Geoids)) + 1]

\* The choices of n distinct keys, as increasing sequences of key numbers.
KeyChoices(n) ==
    {ks \in [1..n -> 1..NKeys] : \A i \in 1..(n - 1) : ks[i] < ks[i + 1]}

\* The table with the keys ks and the values vs: one row per key.
TableOf(ks, vs) ==
    {[acq_date |-> KeyOf(ks[i]).acq_date, GEOID |-> KeyOf(ks[i]).GEOID,
      PSIF |-> vs[i]] : i \in 1..Len(ks)}

\* The windows tried, as <<start_date_str, end_date_str>> in days of the
\* year: one leaves the first day of the year outside, one the last.
WindowChoices == {<<2, YearLen>>, <<1, YearLen - 1>>}

\* A date range that leaves its last day out.
date_range_open(first, last) == [i \in 1..(IF last > first THEN last - first ELSE 0) |-> first + i - 1]

\* processing.py:205 and 208: pd.date_range(start, end, freq='D'), in order
date_range(first, last) == [i \in 1..(IF last >= first THEN last - first + 1 ELSE 0) |-> first + i - 1]

\* processing.py:227-232: the group's value on a date, 0 where it has no row
MergedValue(group_df, date) ==
    IF \E r \in group_df : r.acq_date = date
    THEN (CHOOSE r \in group_df : r.acq_date = date).PSIF
    ELSE 0

RECURSIVE SumSeq(_)
SumSeq(sq) == IF sq = <<>> THEN 0 ELSE Head(sq) + SumSeq(Tail(sq))

\* The rolling mean without the shift: the window ends at the current row.
rolling_mean_shifted_noshift(vals, i) ==
    LET lo == IF i - 2 < 1 THEN 1 ELSE i - 2
    IN  Num(SumSeq(SubSeq(vals, lo, i)), i - lo + 1)

\* processing.py:238-243: rolling(window=3, min_periods=1).mean().shift(1),
\* then fillna(0): at row i the mean of the up to 3 rows before it.
rolling_mean_shifted(vals, i) ==
    IF i = 1 THEN Num(0, 1)
    ELSE LET lo == IF i - 3 < 1 THEN 1 ELSE i - 3
         IN  Num(SumSeq(SubSeq(vals, lo, i - 1)), i - lo)

\* processing.py:221-249: the rows of one group in one year's window
GroupResult(year_df, group, year_start, year_end) ==
    LET group_df == {r \in year_df : r.GEOID = group}
        all_dates == date_range(year_start, year_end)
        ma_dates == date_range(year_start + 4, year_end)
        vals == [i \in 1..Len(all_dates) |-> MergedValue(group_df, all_dates[i])]
    IN  { [ acq_date |-> all_dates[i], GEOID |-> group, PSIF |-> vals[i],
            moving_avg |-> rolling_mean_shifted(vals, i) ] :
          i \in {j \in 1..Len(all_dates) :
                    \E m \in 1..Len(ma_dates) : ma_dates[m] = all_dates[j]} }

\* The rows of one year when every receptor is given a calendar, whether or
\* not it has a record in the year's window.
YearResult_allgroups(df, year, start_day, end_day) ==
    LET year_start == Day(year, start_day)
        year_end == Day(year, end_day)
        year_df == {r \in df : r.acq_date >= year_start /\ r.acq_date <= year_end}
    IN  UNION {GroupResult(year_df, g, year_start, year_end) : g \in Geoids}

\* processing.py:196-255: the rows of one year
YearResult(df, year, start_day, end_day) ==
    LET year_start == Day(year, start_day)
        year_end == Day(year, end_day)
        year_df == {r \in df : r.acq_date >= year_start /\ r.acq_date <= year_end}
        unique_groups == {r.GEOID : r \in year_df}
    IN  UNION {GroupResult(year_df, g, year_start, year_end) : g \in unique_groups}

RowBefore(a, b) ==
    a.GEOID < b.GEOID \/ (a.GEOID = b.GEOID /\ a.acq_date < b.acq_date)

RECURSIVE SortRows(_)
\* processing.py:261: sort_values([group_col, 'acq_date'])
SortRows(rows) ==
    IF rows = {} THEN <<>>
    ELSE LET first == CHOOSE r \in rows : \A o \in rows \ {r} : RowBefore(r, o)
         IN  <<first>> \o SortRows(rows \ {first})

\* processing.py:166-264
calculate_moving_average(df, start_day, end_day) ==
    LET years == {YearOf(r.acq_date) : r \in df}
    IN  SortRows(UNION {YearResult(df, y, start_day, end_day) : y \in years})

InitMA ==
    /\ WindIdle
    /\ BearingIdle
    /\ PairingIdle
    /\ PsifIdle
    /\ \E n \in 0..MaxRecs :
          \E ks \in KeyChoices(n), vs \in [1..n -> Values] :
              ma_df = TableOf(ks, vs)
    /\ \E w \in WindowChoices : start_md = w[1] /\ end_md = w[2]
    /\ ma_out = <<>>
    /\ RestIdle
    /\ pc = "smooth"

CalculateMovingAverage ==
    /\ pc = "smooth"
    /\ ma_out' = calculate_moving_average(ma_df, start_md, end_md)
    /\ pc' = "done"
    /\ UNCHANGED <<windVars, bearingVars, pairingVars, psifVars, ma_df,
                   start_md, end_md,
                   restVars>>

NextMA == CalculateMovingAverage

SpecMA == InitMA /\ [][NextMA]_vars

----------------------------------------------------------------------------
(* Reaggregation to target units: calculate_PSIF.py:61-64 and 99-113      *)
(*                                                                         *)
(* PSIF_with_moving is the table calculate_moving_average returned: one    *)
(* row at most per (GEOID, acq_date), with PSIF and moving_avg.            *)
(* BG_to_ZCTA_map is the crosswalk after line 100: rows GEOID, zcta and    *)
(* afact, where afact is a number or NaN (pd.to_numeric, errors='coerce'). *)
(* A zcta is modelled by its numeric value; NoZcta is the NaN that the     *)
(* left merge leaves where a GEOID has no crosswalk row.                   *)

MaxSmoothed == 2
MaxMap == 2

Zctas == {10, 20}
NoZcta == 0
Afacts == {Num(1, 2), Num(1, 1), NaN}
MovingAvgs == {Num(0, 1), Num(3, 3)}

SmoothedRows ==
    { [acq_date |-> t, GEOID |-> g, PSIF |-> v, moving_avg |-> m] :
        t \in Dates, g \in Geoids, v \in Values, m \in MovingAvgs }

SmoothedTables ==
    { T \in SUBSET SmoothedRows :
        /\ Cardinality(T) <= MaxSmoothed
        /\ \A a \in T, b \in T :
              (a.acq_date = b.acq_date /\ a.GEOID = b.GEOID) => a = b }

MapRows ==
    { [GEOID |-> g, zcta |-> z, afact |-> w] :
        g \in Geoids, z \in Zctas, w \in Afacts }

MapTables == { M \in SUBSET MapRows : Cardinality(M) <= MaxMap }

\* IEEE multiplication of two values that are numbers or NaN.
FMul(a, b) ==
    IF a.kind = "num" /\ b.kind = "num" THEN Num(a.n * b.n, a.d * b.d)
    ELSE NaN

\* The total without the moving average.
PSIF_Total_of_nomoving(row) == Num(row.PSIF, 1)

\* calculate_PSIF.py:64: PSIF + moving_avg
PSIF_Total_of(row) == FAdd(Num(row.PSIF, 1), row.moving_avg)

\* calculate_PSIF.py:104-105: pd.merge(..., on='GEOID', how='left') and
\* weighted_psif = PSIF_Total * afact
merge_left(left, right) ==
    { [acq_date |-> r.acq_date, GEOID |-> r.GEOID, PSIF_Total |-> r.PSIF_Total,
       zcta |-> x.zcta, afact |-> x.afact,
       weighted_psif |-> FMul(r.PSIF_Total, x.afact)] :
        <<r, x>> \in {p \in left \X right : p[1].GEOID = p[2].GEOID} }
    \cup
    { [acq_date |-> r.acq_date, GEOID |-> r.GEOID, PSIF_Total |-> r.PSIF_Total,
       zcta |-> NoZcta, afact |-> NaN,
       weighted_psif |-> FMul(r.PSIF_Total, NaN)] :
        r \in {q \in left : ~ \E x \in right : x.GEOID = q.GEOID} }

RECURSIVE SumWeighted(_)
\* calculate_PSIF.py:111: ('weighted_psif', 'sum') over the rows of a group;
\* the sum skips NaN
SumWeighted(rows) ==
    IF rows = {} THEN Num(0, 1)
    ELSE LET r == CHOOSE q \in rows : TRUE
             rest == SumWeighted(rows \ {r})
         IN  IF r.weighted_psif.kind = "nan" THEN rest
             ELSE FAdd(rest, r.weighted_psif)

\* calculate_PSIF.py:108-112: groupby(['zcta', 'acq_date']) drops the rows
\* whose key is NaN and gives one row per key that has a row
groupby_zcta_date(rows) ==
    { [zcta |-> k[1], acq_date |-> k[2],
       zcta_psif |-> SumWeighted({r \in rows : r.zcta = k[1] /\ r.acq_date = k[2]})] :
        k \in {<<r.zcta, r.acq_date>> : r \in {q \in rows : q.zcta # NoZcta}} }

InitReagg ==
    /\ WindIdle
    /\ BearingIdle
    /\ PairingIdle
    /\ PsifIdle
    /\ MAIdle
    /\ PSIF_with_moving \in SmoothedTables
    /\ BG_to_ZCTA_map \in MapTables
    /\ merged = {} /\ zcta_psif = {}
    /\ PrepIdle /\ DailyIdle /\ TwinIdle
    /\ pc = "total"

\* calculate_PSIF.py:64
AddPsifTotal ==
    /\ pc = "total"
    /\ PSIF_with_moving' =
          { [acq_date |-> r.acq_date, GEOID |-> r.GEOID, PSIF |-> r.PSIF,
             moving_avg |-> r.moving_avg, PSIF_Total |-> PSIF_Total_of(r)] :
              r \in PSIF_with_moving }
    /\ pc' = "merge"
    /\ UNCHANGED <<windVars, bearingVars, pairingVars, psifVars, maVars,
                   BG_to_ZCTA_map, merged, zcta_psif,
                   prepVars, dailyVars, twinVars>>

\* calculate_PSIF.py:104-112
Reaggregate ==
    /\ pc = "merge"
    /\ merged' = merge_left(PSIF_with_moving, BG_to_ZCTA_map)
    /\ zcta_psif' = groupby_zcta_date(merge_left(PSIF_with_moving, BG_to_ZCTA_map))
    /\ pc' = "done"
    /\ UNCHANGED <<windVars, bearingVars, pairingVars, psifVars, maVars,
                   PSIF_with_moving, BG_to_ZCTA_map,
                   prepVars, dailyVars, twinVars>>

NextReagg == AddPsifTotal \/ Reaggregate

SpecReagg == InitReagg /\ [][NextReagg]_vars

----------------------------------------------------------------------------
(* Fire preparation: processing.py:65-71                                   *)
(*                                                                         *)
(* A row of the fire table holds acq_date and, as label, the position the  *)
(* row has in the caller's table (it stands for the row's other columns).  *)

MaxPrep == 3

PrepDates == {1, 2, 3, 4}

FireTables ==
    UNION { { [i \in 1..n |-> [acq_date |-> f[i], label |-> i]] :
                f \in [1..n -> PrepDates] } : n \in 0..MaxPrep }

RECURSIVE Merge_rightfirst(_, _)
\* A merge that takes the right run's row first when the dates are equal.
Merge_rightfirst(a, b) ==
    IF a = <<>> THEN b
    ELSE IF b = <<>> THEN a
    ELSE IF Head(a).acq_date < Head(b).acq_date
         THEN <<Head(a)>> \o Merge_rightfirst(Tail(a), b)
         ELSE <<Head(b)>> \o Merge_rightfirst(a, Tail(b))

RECURSIVE Merge(_, _)
\* The merge step of the mergesort: on equal dates the left run's row first.
Merge(a, b) ==
    IF a = <<>> THEN b
    ELSE IF b = <<>> THEN a
    ELSE IF Head(a).acq_date <= Head(b).acq_date
         THEN <<Head(a)>> \o Merge(Tail(a), b)
         ELSE <<Head(b)>> \o Merge(a, Tail(b))

RECURSIVE MergeSort(_)
\* processing.py:68: sort_values("acq_date", kind="mergesort")
MergeSort(rows) ==
    IF Len(rows) <= 1 THEN rows
    ELSE LET mid == Len(rows) \div 2
         IN  Merge(MergeSort(SubSeq(rows, 1, mid)),
                   MergeSort(SubSeq(rows, mid + 1, Len(rows))))

\* processing.py:65-71.  Returns the new table (out) and the caller's table
\* as the call leaves it (df): the sort works on df.copy().
prep_fires(df) ==
    LET copy == df
        sorted == MergeSort(copy)
    IN  [ out |-> [i \in 1..Len(sorted) |->
                      [acq_date |-> sorted[i].acq_date,
                       label |-> sorted[i].label,
                       fire_id |-> i - 1]],
          df |-> df ]

InitPrep ==
    /\ WindIdle
    /\ BearingIdle
    /\ PairingIdle
    /\ PsifIdle
    /\ MAIdle
    /\ ReaggIdle
    /\ fires_df \in FireTables
    /\ prepped = <<>>
    /\ DailyIdle /\ TwinIdle
    /\ pc = "prep"

PrepFires ==
    /\ pc = "prep"
    /\ prepped' = prep_fires(fires_df).out
    /\ fires_df' = prep_fires(fires_df).df
    /\ pc' = "done"
    /\ UNCHANGED <<windVars, bearingVars, pairingVars, psifVars, maVars,
                   reaggVars, dailyVars, twinVars>>

NextPrep == PrepFires

SpecPrep == InitPrep /\ [][NextPrep]_vars

----------------------------------------------------------------------------
(* Daily wind profile of one grid cell: processing.py:13-30                *)
(*                                                                         *)
(* ds is the hourly series of the cell in time order: each sample has its  *)
(* day and its wind_direction in tenths of a degree, or NaNDirection where *)
(* the grid has no valid wind.  A duration is the fraction                 *)
(* hours_in_sector / 24, kept as Num(hours_in_sector, 24).                 *)

MaxSamples == 3

HoursPerDay == 24
NaNDirection == 0 - 1
SampleDays == {1, 2}
SampleDirections == {0, 225, 900, 2250, 3375, 3599, NaNDirection}

HourlySeries ==
    { s \in SeqsUpTo([day : SampleDays, wind_direction : SampleDirections],
                     MaxSamples) :
        \A i \in 1..(Len(s) - 1) : s[i].day <= s[i + 1].day }

\* A day of n samples, all of them with wind from direction 0.
FullDay(n) == [i \in 1..n |-> [day |-> 1, wind_direction |-> 0]]

\* The series tried: the short ones, a complete day of 24 samples and a
\* day of 25 samples.
SeriesChoices ==
    HourlySeries \cup {FullDay(HoursPerDay), FullDay(HoursPerDay + 1)}

\* processing.py:10 on one sample.  For NaN np.digitize gives len(bins) = 8
\* (NaN sorts after every bin edge), the np.where test is False, so the
\* sector is 9.
wind_sector_of(sample) ==
    IF sample.wind_direction = NaNDirection THEN 9
    ELSE assign_wind_to_sectors(sample.wind_direction)

\* A mask that also takes the samples of the higher sectors.
sector_mask_atleast(sample, sector) == wind_sector_of(sample) >= sector

\* processing.py:17
sector_mask(sample, sector) == wind_sector_of(sample) = sector

\* processing.py:22: where(sector_mask).resample(time="1D").count(dim="time")
hours_in_sector(series, day, sector) ==
    Cardinality({i \in 1..Len(series) :
                    series[i].day = day /\ sector_mask(series[i], sector)})

\* The days of resample(time="1D"): from the first sample's to the last's.
ResampledDays(series) ==
    IF series = <<>> THEN {}
    ELSE series[1].day .. series[Len(series)].day

\* processing.py:13-30: per day, duration_sector_1..8
calculate_daily_sector_stats(series) ==
    [day \in ResampledDays(series) |->
        [sector \in Sectors |->
            Num(hours_in_sector(series, day, sector), HoursPerDay)]]

InitDaily ==
    /\ WindIdle
    /\ BearingIdle
    /\ PairingIdle
    /\ PsifIdle
    /\ MAIdle
    /\ ReaggIdle /\ PrepIdle
    /\ ds \in SeriesChoices
    /\ daily_ds = <<>>
    /\ TwinIdle
    /\ pc = "daily"

CalculateDailySectorStats ==
    /\ pc = "daily"
    /\ daily_ds' = calculate_daily_sector_stats(ds)
    /\ pc' = "done"
    /\ UNCHANGED <<windVars, bearingVars, pairingVars, psifVars, maVars,
                   reaggVars, prepVars, ds, twinVars>>

NextDaily == CalculateDailySectorStats

SpecDaily == InitDaily /\ [][NextDaily]_vars

----------------------------------------------------------------------------
(* Claims on the classifier, the wind direction and the bearing *)

\* The wind vector of the sample points from the fire toward the receptor.
WindTowardReceptor ==
    /\ <<d_lat, d_lon>> # <<0, 0>>
    /\ wind_e = d_lon
    /\ wind_n = d_lat

\* C1: whenever the wind at the fire blows from the fire toward the receptor
\* (any of the 8 compass directions), the sector in which
\* calculate_wind_speed_direction classifies that wind is the bearing sector
\* that selects the duration_sector_k column for sector_prob.
C1_WindSectorIsBearingSector ==
    (pc = "done" /\ WindTowardReceptor) => wind_sector = bearing_sector

\* C1, the case refuting it: wind blowing due north toward a receptor due
\* north of the fire.
C1_NorthCase ==
    /\ pc = "done"
    /\ WindTowardReceptor
    /\ d_lat = 1 /\ d_lon = 0
    /\ wind_sector = 3
    /\ bearing_sector = 1

\* C2: for every bearing sector s in 1..8 the opposite sector is in 1..8,
\* lies 4 positions from s in the cyclic numbering, differs from s, the
\* formula applied to it returns s, and it is the bearing sector of the
\* reversed displacement (receptor -> fire).
C2_OppositeSector ==
    pc = "done" =>
        /\ bearing_sector \in 1..8
        /\ bearing_sector_opposite \in 1..8
        /\ (bearing_sector_opposite - bearing_sector) % 8 = 4
        /\ bearing_sector_opposite # bearing_sector
        /\ opposite_sector(bearing_sector_opposite) = bearing_sector
        /\ (<<d_lat, d_lon>> # <<0, 0>> =>
               bearing_sector_opposite =
                   assign_wind_to_sectors(bearing_deg(-d_lat, -d_lon)))

\* C2 witness: a pair bearing south-west (sector 6) got opposite sector 2.
C2_Witness ==
    /\ pc = "done"
    /\ d_lat = -1 /\ d_lon = -1
    /\ bearing_sector = 6
    /\ bearing_sector_opposite = 2

\* C3: every direction in [0,360) is classified into 1..8, and every
\* direction in [337.5,360) or [0,22.5) into sector 1.
C3_SectorRange ==
    (pc = "done" /\ wind_direction \in Directions) =>
        /\ wind_sector \in 1..8
        /\ (wind_direction >= 3375 \/ wind_direction < 225 => wind_sector = 1)

\* C3 witness: 359.9 degrees was classified into sector 1.
C3_Witness ==
    /\ pc = "done"
    /\ wind_direction = 3599
    /\ wind_sector = 1

\* C4: the classifier realises the half-open intervals of its docstring;
\* in particular 22.5 -> sector 2 and 67.5 -> sector 3.
C4_DocstringPartition ==
    pc = "done" => wind_sector = DocSector(wind_direction)

\* C4, the case refuting it: 22.5 degrees is classified into sector 1.
C4_BoundaryCase ==
    /\ pc = "done"
    /\ wind_direction = 225
    /\ wind_sector = 1

----------------------------------------------------------------------------
(* Claims on the candidate pairing *)

\* The (fire, receptor) combinations of the cross-product within max_km.
CombosWithin ==
    {c \in (1..Len(fires_d)) \X (1..Len(bgs_d)) :
        haversine_km(fires_d[c[1]], bgs_d[c[2]]) <= max_km}

\* C5: fire_bg_pairs returns exactly the combinations of the cross-product
\* whose distance is <= max_km, each once and with its own distance; no row
\* has distance_km > max_km; with max_km = 0 and no coincident points the
\* result is empty.
C5_PairsWithinMaxKm ==
    pc = "done" =>
        /\ {<<cart[k].fire, cart[k].bg>> : k \in 1..Len(cart)} = CombosWithin
        /\ Len(cart) = Cardinality(CombosWithin)
        /\ \A k \in 1..Len(cart) :
              /\ cart[k].distance_km =
                     haversine_km(fires_d[cart[k].fire], bgs_d[cart[k].bg])
              /\ cart[k].distance_km <= max_km
        /\ ((max_km = 0 /\
              \A i \in 1..Len(fires_d), j \in 1..Len(bgs_d) :
                  fires_d[i] # bgs_d[j]) => cart = <<>>)

\* C5 witness: with the 100 km threshold, of two receptors one is kept
\* (55.6 km away) and one is dropped (111.2 km away).
C5_Witness ==
    /\ pc = "done"
    /\ max_km = 100 * 1000
    /\ Len(fires_d) = 1 /\ Len(bgs_d) = 2
    /\ Len(cart) = 1
    /\ cart[1].distance_km = MetresPerHalfDegree

----------------------------------------------------------------------------
(* Claims on the exposure model *)

\* The (acq_date, GEOID) keys present among the input pairs.
KeysPresent == {<<pairs[i].acq_date, pairs[i].GEOID>> : i \in 1..Len(pairs)}

\* frp * max(0, sector_prob + sector_prob_BGWind_SameDirection) / distance_km^2
\* of one input row, from the row alone.
ClaimedPart(row) ==
    LET sec == BearingSectorOf(row)
        tot == wind_fire[sec] + wind_bg[sec]
    IN  FDiv(row.frp * (IF tot < 0 THEN 0 ELSE tot),
             24 * row.distance_km * row.distance_km)

ClaimedSum(key) ==
    group_sum_keepna(PartsOf(pairs, [i \in 1..Len(pairs) |-> ClaimedPart(pairs[i])], key))

PsifTableIsGroupSum ==
    /\ raised = ""
    /\ {<<psif_out[j].acq_date, psif_out[j].GEOID>> : j \in 1..Len(psif_out)}
           = KeysPresent
    /\ Len(psif_out) = Cardinality(KeysPresent)
    /\ \A j \in 1..Len(psif_out) :
          FEq(psif_out[j].PSIF,
              ClaimedSum(<<psif_out[j].acq_date, psif_out[j].GEOID>>))

\* C6: psif_from_pairs returns exactly one record per distinct
\* (acq_date, GEOID) among the input pairs, whose PSIF is the sum over the
\* pairs of that key of frp * max(0, sector_prob + same-direction prob) /
\* distance_km^2; keys with no pair get no record.
C6_PsifIsSumPerDateReceptor ==
    pc = "done" => PsifTableIsGroupSum

\* C6 holds of the calls that the defects of C7 and C8 do not touch: a
\* non-empty table, every receptor-side column present, no distance 0.
PsifIsSumOnSoundInput ==
    (/\ pc = "done"
     /\ pairs # <<>>
     /\ bg_cols = Sectors
     /\ \A i \in 1..Len(pairs) : pairs[i].distance_km > 0)
        => PsifTableIsGroupSum

\* C6, a case refuting it: an empty pair table ends in a KeyError.
C6_EmptyTableRaises ==
    /\ pc = "done"
    /\ pairs = <<>>
    /\ bg_cols = Sectors
    /\ raised = "KeyError"

IsFinite(v) == v.kind = "num"

\* C7: when a pair has distance_km = 0, neither its psif_part nor the PSIF
\* of its (date, receptor) is infinite or undefined.
C7_ZeroDistanceStaysFinite ==
    (pc = "done" /\ raised = "") =>
        \A i \in 1..Len(pairs) :
            pairs[i].distance_km = 0 =>
                /\ IsFinite(derived[i].psif_part)
                /\ \A j \in 1..Len(psif_out) :
                      (psif_out[j].acq_date = pairs[i].acq_date
                       /\ psif_out[j].GEOID = pairs[i].GEOID)
                          => IsFinite(psif_out[j].PSIF)

\* C7, the case refuting it: a coincident pair with frp > 0 made the PSIF of
\* its (date, receptor) infinite.
C7_InfinitePsif ==
    /\ pc = "done"
    /\ Len(pairs) = 1
    /\ pairs[1].distance_km = 0 /\ pairs[1].frp = 3
    /\ derived[1].psif_part = PInf
    /\ psif_out[1].PSIF = PInf

\* No row's bearing sector has a receptor-side column.
NoMatchingBgColumn ==
    ExistingColumns([i \in 1..Len(pairs) |-> BearingSectorOf(pairs[i])],
                    bg_cols) = <<>>

\* C8: when no receptor-side column matches the bearing sectors, a
\* diagnostic is printed and psif_from_pairs still returns the aggregated
\* (date, receptor) table instead of raising.
C8_MissingBgColumnsNonFatal ==
    (pc = "done" /\ pairs # <<>> /\ NoMatchingBgColumn) =>
        /\ printed # <<>>
        /\ raised = ""
        /\ Len(psif_out) = Cardinality(KeysPresent)

\* C8, the case refuting it: the diagnostic is printed, then the call ends
\* in a KeyError and returns nothing.
C8_KeyErrorAfterDiagnostic ==
    /\ pc = "done"
    /\ pairs # <<>>
    /\ bg_cols = {}
    /\ printed[1] = "No matching columns found"
    /\ raised = "KeyError"
    /\ psif_out = <<>>

NonNegative(v) == v.kind = "inf" \/ (v.kind = "num" /\ v.n >= 0)

\* C9: sector_prob_total is never negative, and psif_part is non-negative
\* whenever frp >= 0.
C9_TotalAndPartNonNegative ==
    pc = "done" =>
        \A i \in 1..Len(derived) :
            derived[i].has_total =>
                /\ derived[i].sector_prob_total >= 0
                /\ (pairs[i].frp >= 0 => NonNegative(derived[i].psif_part))

\* The clamp alone: sector_prob_total is never negative.
TotalNeverNegative ==
    pc = "done" =>
        \A i \in 1..Len(derived) :
            derived[i].has_total => derived[i].sector_prob_total >= 0

\* C9, the case refuting it: a coincident pair with frp = 0 has psif_part
\* 0/0 = NaN.
C9_NaNPart ==
    /\ pc = "done"
    /\ Len(pairs) = 1
    /\ pairs[1].frp = 0 /\ pairs[1].distance_km = 0
    /\ derived[1].has_total
    /\ derived[1].psif_part = NaN

----------------------------------------------------------------------------
(* Claims on the temporal smoother *)

\* v(x): the receptor's input value on day x, 0 when it has no row that day.
InputValue(geoid, date) ==
    IF \E r \in ma_df : r.GEOID = geoid /\ r.acq_date = date
    THEN (CHOOSE r \in ma_df : r.GEOID = geoid /\ r.acq_date = date).PSIF
    ELSE 0

\* The receptor's value is 0 on every day of the window of the date's year.
ZeroInWindow(geoid, date) ==
    \A x \in Day(YearOf(date), start_md)..Day(YearOf(date), end_md) :
        InputValue(geoid, x) = 0

\* C10: on every returned row, at date D for receptor g, moving_avg is
\* (v(D-1) + v(D-2) + v(D-3)) / 3, the day D itself excluded; a receptor
\* whose value is 0 on every day of the window has moving_avg 0 on every
\* returned row.
C10_MovingAvgOfPreviousThreeDays ==
    pc = "done" =>
        \A j \in 1..Len(ma_out) :
            LET row == ma_out[j]
                g == row.GEOID
                D == row.acq_date
            IN  /\ FEq(row.moving_avg,
                       Num(InputValue(g, D - 1) + InputValue(g, D - 2)
                             + InputValue(g, D - 3), 3))
                /\ (ZeroInWindow(g, D) => FEq(row.moving_avg, Num(0, 1)))

\* C10 witness: a returned row whose own day has a value, whose two previous
\* days have value 3 and 0, and whose moving_avg is 3/3.
C10_Witness ==
    /\ pc = "done"
    /\ \E j \in 1..Len(ma_out) :
          /\ ma_out[j].PSIF = 3
          /\ InputValue(ma_out[j].GEOID, ma_out[j].acq_date - 1) = 3
          /\ InputValue(ma_out[j].GEOID, ma_out[j].acq_date - 2) = 0
          /\ FEq(ma_out[j].moving_avg, Num(1, 1))

\* The window of a year: start_date_str .. end_date_str of that year.
WindowOf(year) == Day(year, start_md)..Day(year, end_md)

\* The days of a year for which rows are returned: the window without its
\* first 4 days.
ReturnedDays(year) == (Day(year, start_md) + 4)..Day(year, end_md)

\* The returned rows of a receptor on a date, by position.
RowsAt(geoid, date) ==
    {j \in 1..Len(ma_out) :
        ma_out[j].GEOID = geoid /\ ma_out[j].acq_date = date}

\* C11: for every year and every receptor with at least one input record
\* inside that year's window, exactly one row is returned for each date from
\* window-start + 4 through window-end; no returned row lies outside
\* [window-start + 4, window-end] of its year; an input record dated in the
\* first 4 days of the window or outside the window is no returned row.
C11_RowsCoverWindowFromFifthDay ==
    pc = "done" =>
        /\ \A y \in Years, g \in Geoids :
              (\E r \in ma_df : r.GEOID = g /\ r.acq_date \in WindowOf(y))
                  => \A D \in ReturnedDays(y) : Cardinality(RowsAt(g, D)) = 1
        /\ \A j \in 1..Len(ma_out) :
              ma_out[j].acq_date \in ReturnedDays(YearOf(ma_out[j].acq_date))
        /\ \A r \in ma_df :
              r.acq_date \notin ReturnedDays(YearOf(r.acq_date))
                  => RowsAt(r.GEOID, r.acq_date) = {}

\* C11 witness: a receptor with one record on the first day of a window and
\* one record outside it got the rows of the days window-start + 4 ..
\* window-end and no other.
C11_Witness ==
    /\ pc = "done"
    /\ \E r \in ma_df, o \in ma_df :
          /\ r.GEOID = o.GEOID
          /\ r.acq_date = Day(YearOf(r.acq_date), start_md)
          /\ YearOf(o.acq_date) = YearOf(r.acq_date)
          /\ o.acq_date \notin WindowOf(YearOf(o.acq_date))
          /\ Len(ma_out) = Cardinality(ReturnedDays(YearOf(r.acq_date)))
          /\ \A D \in ReturnedDays(YearOf(r.acq_date)) :
                RowsAt(r.GEOID, D) # {}
    /\ Len(ma_out) > 0

\* The receptor has an input record inside the window of the year.
HasRecordIn(geoid, year) ==
    \E r \in ma_df : r.GEOID = geoid /\ r.acq_date \in WindowOf(year)

HasRecordOn(geoid, date) ==
    \E r \in ma_df : r.GEOID = geoid /\ r.acq_date = date

\* The calendar years present in the input.
YearsPresent == {YearOf(r.acq_date) : r \in ma_df}

\* C12, as stated: a receptor absent from the input, or from one of the
\* calendar years present, still gets a defined zero-valued moving-average
\* series over [window-start + 4, window-end] of that year.
C12_AbsentReceptorGetsZeroSeries ==
    pc = "done" =>
        \A y \in YearsPresent, g \in Geoids :
            (~ \E r \in ma_df : r.GEOID = g /\ YearOf(r.acq_date) = y)
                => \A D \in ReturnedDays(y) :
                      \E j \in RowsAt(g, D) :
                          FEq(ma_out[j].moving_avg, Num(0, 1))

\* C12, amended: a receptor with no input record inside a year's window
\* (absent from the input, or from that year) gets no row of that year; a
\* receptor with a record inside the window gets, on every day of
\* [window-start + 4, window-end], a row with a finite moving_avg, which is
\* 0 when it has no record on the three previous days, and whose value is 0
\* when it has no record on that day.
C12_CalendarOnlyForReceptorsPresent ==
    pc = "done" =>
        \A y \in Years, g \in Geoids :
            IF HasRecordIn(g, y)
            THEN \A D \in ReturnedDays(y) :
                    \E j \in RowsAt(g, D) :
                        /\ IsFinite(ma_out[j].moving_avg)
                        /\ (~ HasRecordOn(g, D) => ma_out[j].PSIF = 0)
                        /\ ((\A k \in 1..3 : ~ HasRecordOn(g, D - k))
                               => FEq(ma_out[j].moving_avg, Num(0, 1)))
            ELSE \A D \in AllDates : YearOf(D) = y => RowsAt(g, D) = {}

\* C12 witness: receptor 1 has its only record in the window of year 1 and
\* receptor 2 its only record in the window of year 2; receptor 1 has the
\* rows of year 1 and none of year 2, receptor 2 the converse.
C12_Witness ==
    /\ pc = "done"
    /\ HasRecordIn(1, 1) /\ ~ HasRecordIn(1, 2)
    /\ HasRecordIn(2, 2) /\ ~ HasRecordIn(2, 1)
    /\ RowsAt(1, Day(1, end_md)) # {} /\ RowsAt(1, Day(2, end_md)) = {}
    /\ RowsAt(2, Day(2, end_md)) # {} /\ RowsAt(2, Day(1, end_md)) = {}
    /\ Len(ma_out) = 2 * Cardinality(ReturnedDays(1))

----------------------------------------------------------------------------
(* Claims on the reaggregation *)

\* The (receptor row, crosswalk row) combinations that map a receptor of
\* the date to the target unit.
Contributions(zcta, date) ==
    {p \in PSIF_with_moving \X BG_to_ZCTA_map :
        /\ p[1].GEOID = p[2].GEOID
        /\ p[2].zcta = zcta
        /\ p[1].acq_date = date}

RECURSIVE SumContributions(_)
\* The sum of (PSIF + moving_avg) * weight over combinations; a combination
\* whose weight is absent adds nothing.
SumContributions(ps) ==
    IF ps = {} THEN Num(0, 1)
    ELSE LET p == CHOOSE q \in ps : TRUE
             rest == SumContributions(ps \ {p})
             r == p[1]
             w == p[2].afact
         IN  IF w.kind # "num" THEN rest
             ELSE FAdd(rest,
                       Num((r.PSIF * r.moving_avg.d + r.moving_avg.n) * w.n,
                           r.moving_avg.d * w.d))

ZctaRowsAt(zcta, date) ==
    {o \in zcta_psif : o.zcta = zcta /\ o.acq_date = date}

\* C13: for every (target unit, date) the reaggregated index is the sum,
\* over the receptors the crosswalk maps to that target unit, of
\* (PSIF + moving_avg) of the receptor on that date times its weight; a
\* receptor with no crosswalk entry adds to no target unit and creates no
\* target-unit row.
C13_ReaggregatedIsWeightedSum ==
    pc = "done" =>
        /\ \A z \in Zctas, t \in Dates :
              IF Contributions(z, t) = {}
              THEN ZctaRowsAt(z, t) = {}
              ELSE /\ Cardinality(ZctaRowsAt(z, t)) = 1
                   /\ \A o \in ZctaRowsAt(z, t) :
                         FEq(o.zcta_psif, SumContributions(Contributions(z, t)))
        /\ \A o \in zcta_psif : o.zcta \in Zctas /\ o.acq_date \in Dates
        /\ \A r \in PSIF_with_moving :
              (~ \E x \in BG_to_ZCTA_map : x.GEOID = r.GEOID)
                  => zcta_psif =
                        groupby_zcta_date(
                            merge_left(PSIF_with_moving \ {r}, BG_to_ZCTA_map))

\* C13 witness: on one date receptor 1 (PSIF 3, moving_avg 1) is mapped to
\* target unit 10 with weight 1/2 and receptor 2 (PSIF 3) has no crosswalk
\* entry; the only row returned is target unit 10 with (3 + 1) / 2.
C13_Witness ==
    /\ pc = "done"
    /\ \E r \in PSIF_with_moving, u \in PSIF_with_moving :
          /\ r.GEOID = 1 /\ u.GEOID = 2 /\ r.acq_date = u.acq_date
          /\ r.PSIF = 3 /\ FEq(r.moving_avg, Num(1, 1)) /\ u.PSIF = 3
          /\ BG_to_ZCTA_map = {[GEOID |-> 1, zcta |-> 10, afact |-> Num(1, 2)]}
          /\ Cardinality(zcta_psif) = 1
          /\ \A o \in zcta_psif :
                /\ o.zcta = 10 /\ o.acq_date = r.acq_date
                /\ FEq(o.zcta_psif, Num(2, 1))

----------------------------------------------------------------------------
(* Claims on the fire preparation *)

FireIdsDenseInDateOrder ==
    pc = "done" =>
        /\ Len(prepped) = Len(fires_df)
        /\ {[acq_date |-> prepped[i].acq_date, label |-> prepped[i].label] :
                i \in 1..Len(prepped)}
             = {fires_df[i] : i \in 1..Len(fires_df)}
        /\ {prepped[i].fire_id : i \in 1..Len(prepped)} = 0..(Len(fires_df) - 1)
        /\ \A i \in 1..Len(prepped), j \in 1..Len(prepped) :
              /\ (prepped[i].fire_id = prepped[j].fire_id => i = j)
              /\ (prepped[i].fire_id < prepped[j].fire_id =>
                    /\ prepped[i].acq_date <= prepped[j].acq_date
                    /\ (prepped[i].acq_date = prepped[j].acq_date
                          => prepped[i].label < prepped[j].label))

\* C14: prep_fires gives fire_id values that are unique and exactly 0..n-1
\* in non-decreasing acq_date order, two fires of equal acq_date keeping
\* their original relative order; the caller's table is left unchanged.
C14_FireIdsDenseStableCallerUnchanged ==
    /\ []FireIdsDenseInDateOrder
    /\ [][fires_df' = fires_df]_vars

\* C14 witness: of three fires dated 2, 1, 2 the second got fire_id 0, the
\* first fire_id 1 and the third fire_id 2.
C14_Witness ==
    /\ pc = "done"
    /\ Len(fires_df) = 3
    /\ fires_df[1].acq_date = 2 /\ fires_df[2].acq_date = 1
    /\ fires_df[3].acq_date = 2
    /\ prepped[1].label = 2 /\ prepped[1].fire_id = 0
    /\ prepped[2].label = 1 /\ prepped[2].fire_id = 1
    /\ prepped[3].label = 3 /\ prepped[3].fire_id = 2

----------------------------------------------------------------------------
(* Claims on the daily wind profile *)

\* The samples of a day, by position, and those with a valid wind.
SamplesOf(day) == {i \in 1..Len(ds) : ds[i].day = day}
ValidSamplesOf(day) ==
    {i \in SamplesOf(day) : ds[i].wind_direction # NaNDirection}

\* The number of the day's samples that the classifier puts in the sector.
ClassifiedInto(day, k) ==
    Cardinality({i \in ValidSamplesOf(day) :
                    assign_wind_to_sectors(ds[i].wind_direction) = k})

RECURSIVE HoursUpTo(_, _)
\* The sum of the numerators of duration_sector_1..k of a day.
HoursUpTo(day, k) ==
    IF k = 0 THEN 0 ELSE daily_ds[day][k].n + HoursUpTo(day, k - 1)

\* C15: for every day produced from the hourly samples (at most 24 a day),
\* each duration_sector_k is in [0,1] and is (number of the day's samples
\* classified into sector k) / 24; the eight durations sum to (number of
\* valid samples of the day) / 24, which is at most 1.
C15_DurationsAreSectorCountsOver24 ==
    (pc = "done" /\ \A d \in SampleDays : Cardinality(SamplesOf(d)) <= 24) =>
        /\ \A d \in SampleDays : SamplesOf(d) # {} => d \in DOMAIN daily_ds
        /\ \A d \in DOMAIN daily_ds :
              /\ \A k \in 1..8 :
                    /\ daily_ds[d][k].kind = "num"
                    /\ daily_ds[d][k].d = 24
                    /\ daily_ds[d][k].n = ClassifiedInto(d, k)
                    /\ 0 <= daily_ds[d][k].n
                    /\ daily_ds[d][k].n <= daily_ds[d][k].d
              /\ HoursUpTo(d, 8) = Cardinality(ValidSamplesOf(d))
              /\ HoursUpTo(d, 8) <= 24

\* C15 witness: a day with one sample at 350 degrees, one at 0 degrees and
\* one without valid wind has duration_sector_1 = 2/24, and its eight
\* durations sum to 2/24.
C15_Witness ==
    /\ pc = "done"
    /\ \E d \in DOMAIN daily_ds :
          /\ Cardinality(SamplesOf(d)) = 3
          /\ \E i \in SamplesOf(d) : ds[i].wind_direction = NaNDirection
          /\ \E i \in SamplesOf(d) : ds[i].wind_direction = 3599
          /\ \E i \in SamplesOf(d) : ds[i].wind_direction = 0
          /\ daily_ds[d][1] = Num(2, 24)
          /\ HoursUpTo(d, 8) = 2

----------------------------------------------------------------------------
(* Claims on two calls of the exposure model *)

\* The two calls end alike and return the same PSIF per (date, receptor).
SamePsifInBothCalls ==
    /\ raised_alt = raised
    /\ Len(psif_out_alt) = Len(psif_out)
    /\ \A j \in 1..Len(psif_out) :
          /\ psif_out_alt[j].acq_date = psif_out[j].acq_date
          /\ psif_out_alt[j].GEOID = psif_out[j].GEOID
          /\ \/ FEq(psif_out_alt[j].PSIF, psif_out[j].PSIF)
             \/ (psif_out_alt[j].PSIF = NaN /\ psif_out[j].PSIF = NaN)

\* C16: two calls of psif_from_pairs on pair tables that are identical
\* except for the values in the receptor-side duration column selected by
\* bearing_sector_opposite return the same PSIF per (date, receptor).
C16_OppositeColumnNeverUsed ==
    pc = "done" => SamePsifInBothCalls

\* C16 holds of the calls in which all eight receptor-side columns exist.
OppositeUnusedWithAllColumns ==
    (pc = "done" /\ bg_cols = Sectors) => SamePsifInBothCalls

\* C16, the case refuting it: only duration_sector_1_bg exists; the first
\* row bears north (sector 1), the second south (sector 5, opposite sector
\* 1); both calls succeed and return different PSIF.
C16_OppositeColumnLeaks ==
    /\ pc = "done"
    /\ bg_cols = {1}
    /\ Len(pairs) = 2
    /\ BearingSectorOf(pairs[1]) = 1 /\ pairs[1].distance_km > 0
    /\ BearingSectorOf(pairs[2]) = 5
    /\ opposite_sector(BearingSectorOf(pairs[2])) = 1
    /\ raised = "" /\ raised_alt = ""
    /\ ~ SamePsifInBothCalls

====
